---- MODULE Spec2Model ----
(***************************************************************************)
(* Model of the selection/risk engine of betflow-engine:                   *)
(*   selection_engine/selection_logic.py  (SelectionEngine)                *)
(*   selection_engine/backtesting.py      (SelectionEngineBacktester)      *)
(*   selection_engine/live_pipeline.py    (LivePipeline)                   *)
(*                                                                         *)
(* Units.  Probabilities, edges and percentages are whole percents         *)
(* (0.70 is 70).  Decimal odds are hundredths (2.00 is 200).  Money is in  *)
(* cents (10000.0 is 1000000).  A Kelly fraction and a closing line value  *)
(* are exact rationals <<numerator, denominator>>; a product with money is *)
(* rounded down to the cent.  Dates are day numbers, the live clock is in  *)
(* minutes.  Probabilities and odds are numbers: NaN there is outside the   *)
(* model.                                                                  *)
(***************************************************************************)
EXTENDS Integers, Sequences, FiniteSets, TLC

VARIABLES
    \* ---- SelectionEngine (selection_logic.py) ----
    models,            \* SelectionEngine.models: the set of loaded model keys
    e_df,              \* the DataFrame handed to select_matches
    e_out,             \* the list select_matches returned last
    e_pc,              \* position of the engine driver
    e_bankroll,        \* SelectionEngine.current_bankroll
    selections_history, \* SelectionEngine.selections_history
    criteria,          \* SelectionEngine.criteria
    \* ---- SelectionEngineBacktester (backtesting.py) ----
    weekly_groups,     \* run_backtest: the weekly windows iterated so far
    trained_through,   \* last date of the data the loaded models were fitted on
    initial_bankroll,  \* SelectionEngineBacktester.initial_bankroll
    current_bankroll,  \* SelectionEngineBacktester.current_bankroll
    bankroll_history,  \* SelectionEngineBacktester.bankroll_history
    round_reports,     \* SelectionEngineBacktester.round_reports
    bt_pc,             \* position inside run_backtest / _test_week
    week_df,           \* _test_week: week_data['data'], without the filler rows
    all_selections,    \* _test_week: all_selections of the current week
    results,           \* _test_week: results (match_id -> bool) of the week
    performance,       \* _test_week: performance of the current week
    settle_i,          \* _update_bankroll: index of the next selection
    ledger_log,        \* history: every settlement applied to the balance
    overall,           \* the BacktestResults run_backtest returned
    \* ---- LivePipeline (live_pipeline.py) ----
    clock,             \* wall clock, minutes
    feed,              \* what the upstream API currently returns
    lv_pc,             \* position inside _recompute_selections
    upcoming_matches,  \* _recompute_selections: fetched matches of the cycle
    emitted,           \* history: per (match, variant) the cutoff_time of its first Selection
    alerts,            \* history: per (match, variant) the alerts posted to the webhook
    cycles,            \* number of recompute cycles started
    \* ---- LivePipeline.run with the schedule jobs ----
    sc_pc,             \* position inside run / run_pending
    sc_clock,          \* wall clock of the main loop, minutes
    next_run,          \* schedule: next_run of every job
    fired,             \* jobs run_pending called in the current pass
    coroutines,        \* coroutine objects created by the job calls
    running,           \* recompute bodies in progress
    \* ---- run_backtest: _group_by_weeks and the window loop ----
    gw_dates,          \* backtest_data['date'], one entry per match, sorted
    gw_groups,         \* weekly_groups: the list _group_by_weeks returned
    gw_done,           \* the windows the loop of run_backtest has processed
    gw_pc,             \* position inside run_backtest
    \* ---- RateLimitMiddleware (api/core/middleware.py) ----
    rl_clients,        \* RateLimitMiddleware.clients: ip -> recorded call times
    rl_now,            \* time.time(), seconds
    rl_forwarded,      \* history: per ip the times of the requests passed on
    rl_last,           \* history: the request dispatched last and its response
    rl_requests,       \* number of requests dispatched
    rl_limit           \* RateLimitMiddleware.calls_per_minute

vars == <<models, e_df, e_out, e_pc, e_bankroll, selections_history, criteria,
          weekly_groups, trained_through, initial_bankroll, current_bankroll,
          bankroll_history, round_reports, bt_pc, week_df, all_selections,
          results, performance, settle_i, ledger_log, overall,
          clock, feed, lv_pc, upcoming_matches, emitted, alerts, cycles,
          sc_pc, sc_clock, next_run, fired, coroutines, running,
          gw_dates, gw_groups, gw_done, gw_pc,
          rl_clients, rl_now, rl_forwarded, rl_last, rl_requests, rl_limit>>

engine_vars == <<models, e_df, e_out, e_pc, e_bankroll, selections_history,
                 criteria>>

backtest_vars == <<weekly_groups, trained_through, initial_bankroll,
                   current_bankroll, bankroll_history, round_reports, bt_pc,
                   week_df, all_selections, results, performance, settle_i,
                   ledger_log, overall>>

live_vars == <<clock, feed, lv_pc, upcoming_matches, emitted, alerts, cycles>>

sched_vars == <<sc_pc, sc_clock, next_run, fired, coroutines, running>>

weeks_vars == <<gw_dates, gw_groups, gw_done, gw_pc>>

rate_vars == <<rl_clients, rl_now, rl_forwarded, rl_last, rl_requests,
               rl_limit>>

(***************************************************************************)
(* SelectionCriteria and the engine's bankroll                             *)
(***************************************************************************)
min_confidence == 70
edge_min_bucket_70_74 == 3
edge_min_bucket_75_79 == 4
edge_min_bucket_80_plus == 5
clv_min == 2
max_selections_per_round == 5
max_selections_per_profile == 3
kelly_fraction == 25
max_stake_percentage == 2
stop_loss_percentage == 10

\* SelectionCriteria(): the dataclass with its defaults
SelectionCriteria ==
    [min_confidence |-> min_confidence,
     edge_min_bucket_70_74 |-> edge_min_bucket_70_74,
     edge_min_bucket_75_79 |-> edge_min_bucket_75_79,
     edge_min_bucket_80_plus |-> edge_min_bucket_80_plus,
     clv_min |-> clv_min,
     max_selections_per_round |-> max_selections_per_round,
     max_selections_per_profile |-> max_selections_per_profile,
     kelly_fraction |-> kelly_fraction,
     max_stake_percentage |-> max_stake_percentage,
     stop_loss_percentage |-> stop_loss_percentage]

\* SelectionEngine(criteria): configurations a caller can pass, the defaults
\* and one with the confidence threshold lowered to 0.50
Configurations ==
    {SelectionCriteria, [SelectionCriteria EXCEPT !.min_confidence = 50]}

\* SelectionEngine.bankroll = 10000.0, the start of current_bankroll
engine_bankroll == 1000000

Profiles == {"profile_a", "profile_b"}
Targets == {"over_2_5", "under_2_5"}
AllModelKeys == Profiles \X Targets

\* closing_*_odds column absent from the row
NoClosing == -1

\* every model.predict_proba of the key raises for the row
PredictError == -1

(***************************************************************************)
(* Helpers                                                                 *)
(***************************************************************************)
Max(a, b) == IF a >= b THEN a ELSE b

RECURSIVE SeqMax(_)
SeqMax(s) == IF Len(s) = 1 THEN s[1] ELSE Max(s[1], SeqMax(Tail(s)))

RECURSIVE SeqMin(_)
SeqMin(s) == IF Len(s) = 1 THEN s[1]
             ELSE LET m == SeqMin(Tail(s)) IN IF s[1] <= m THEN s[1] ELSE m

Prefix(s, n) == IF Len(s) > n THEN SubSeq(s, 1, n) ELSE s

RECURSIVE GCD(_, _)
GCD(a, b) == IF b = 0 THEN a ELSE GCD(b, a % b)

\* the rational n/d (n >= 0, d > 0) in lowest terms
Rat(n, d) == LET g == GCD(n, d) IN <<n \div g, d \div g>>

\* a/b >= c/100 for b > 0
RatGePct(r, c) == 100 * r[1] >= c * r[2]

(***************************************************************************)
(* SelectionEngine                                                         *)
(***************************************************************************)
Nothing == [kind |-> "none"]
Raised == [kind |-> "raise"]

\* the models of a key answer match.over_model / match.under_model; with
\* every predict_proba raising, predictions is empty and ensemble_prob 0.5
get_model_prediction(match, profile, target, ms) ==
    LET raw == IF target = "over_2_5" THEN match.over_model ELSE match.under_model
        ensemble_prob == IF raw = PredictError THEN 50 ELSE raw
    IN  IF ms = {} \/ <<profile, target>> \notin ms
        THEN [over_prob |-> 50, under_prob |-> 50]
        ELSE IF target = "over_2_5"
             THEN [over_prob |-> ensemble_prob, under_prob |-> 100 - ensemble_prob]
             ELSE [over_prob |-> 100 - ensemble_prob, under_prob |-> ensemble_prob]

\* get_required_edge with the bucket lookup dropped
get_required_edge_flat(confidence) == criteria.edge_min_bucket_70_74

get_required_edge(confidence) ==
    IF confidence >= 80 THEN criteria.edge_min_bucket_80_plus
    ELSE IF confidence >= 75 THEN criteria.edge_min_bucket_75_79
    ELSE criteria.edge_min_bucket_70_74

\* calculate_kelly_stake without the final max(0, .)
calculate_kelly_stake_signed(model_prob, odds) ==
    LET b == odds - 100
        num == b * model_prob - 100 * (100 - model_prob)
    IN  IF b <= 0 THEN <<0, 1>>
        ELSE Rat(criteria.kelly_fraction * num, 10000 * b)

\* f = kelly_fraction * (b*p - q) / b as a rational, 0 when b <= 0 or f < 0
calculate_kelly_stake(model_prob, odds) ==
    LET b == odds - 100
        num == b * model_prob - 100 * (100 - model_prob)
    IN  IF b <= 0 THEN <<0, 1>>
        ELSE IF num <= 0 THEN <<0, 1>>
        ELSE Rat(criteria.kelly_fraction * num, 10000 * b)

extract_key_features(match) ==
    [lineup_confirmed |-> match.lineup_confirmed]

evaluate_selection(match, profile, selection_type, over_pred, under_pred, bankroll, now) ==
    LET model_prob == IF selection_type = "over" THEN over_pred.over_prob
                      ELSE under_pred.under_prob
        implied_prob == IF selection_type = "over" THEN match.implied_over_prob
                        ELSE match.implied_under_prob
        odds == IF selection_type = "over" THEN match.opening_over_odds
                ELSE match.opening_under_odds
        closing == IF selection_type = "over" THEN match.closing_over_odds
                   ELSE match.closing_under_odds
        confidence == model_prob
        edge == model_prob - implied_prob
        closing_odds == IF closing = NoClosing THEN odds ELSE closing
        \* 1/closing_odds - 1/odds = 100*(odds - closing_odds)/(odds*closing_odds)
        clv == <<100 * (odds - closing_odds), odds * closing_odds>>
        kelly == calculate_kelly_stake(model_prob, odds)
        raw_amount == (bankroll * kelly[1]) \div kelly[2]
        cap_amount == (bankroll * criteria.max_stake_percentage) \div 100
        capped == raw_amount > cap_amount
    IN  IF confidence < criteria.min_confidence THEN Nothing
        ELSE IF edge < get_required_edge(confidence) THEN Nothing
        ELSE IF closing_odds = 0 \/ odds = 0 THEN Raised   \* ZeroDivisionError
        ELSE IF ~RatGePct(clv, criteria.clv_min) THEN Nothing
        ELSE [kind |-> "sel",
              match_id |-> match.match_id,
              teams |-> match.teams,
              profile |-> profile,
              selection_type |-> selection_type,
              confidence |-> confidence,
              edge |-> edge,
              clv |-> clv,
              stake_percentage |-> IF capped THEN <<criteria.max_stake_percentage, 100>>
                                   ELSE kelly,
              stake_amount |-> IF capped THEN cap_amount ELSE raw_amount,
              odds |-> odds,
              implied_prob |-> implied_prob,
              model_prob |-> model_prob,
              selection_time |-> now,
              cutoff_time |-> now + 60,
              features |-> extract_key_features(match)]

\* list.sort(key=confidence, reverse=True): stable, descending
RECURSIVE InsertByConfidence(_, _)
InsertByConfidence(sorted, s) ==
    IF sorted = <<>> THEN <<s>>
    ELSE IF sorted[1].confidence >= s.confidence
         THEN <<sorted[1]>> \o InsertByConfidence(Tail(sorted), s)
         ELSE <<s>> \o sorted

RECURSIVE SortByConfidence(_)
SortByConfidence(sels) ==
    IF sels = <<>> THEN <<>>
    ELSE InsertByConfidence(SortByConfidence(SubSeq(sels, 1, Len(sels) - 1)),
                            sels[Len(sels)])

\* the profile limit is computed into a local that is dropped; only the
\* per-round limit reaches the returned list
apply_selection_limits(selections, profile) ==
    Prefix(SortByConfidence(selections), criteria.max_selections_per_round)

\* one iteration of the per-match loop: what it appends to selections
process_match(match, profile, ms, bankroll, now) ==
    LET over_pred == get_model_prediction(match, profile, "over_2_5", ms)
        under_pred == get_model_prediction(match, profile, "under_2_5", ms)
        over_selection == evaluate_selection(match, profile, "over", over_pred, under_pred, bankroll, now)
        under_selection == evaluate_selection(match, profile, "under", over_pred, under_pred, bankroll, now)
    IN  IF over_selection.kind = "raise" \/ under_selection.kind = "raise" THEN <<>>
        ELSE (IF over_selection.kind = "sel" THEN <<over_selection>> ELSE <<>>)
             \o (IF under_selection.kind = "sel" THEN <<under_selection>> ELSE <<>>)

RECURSIVE collect_selections(_, _, _, _, _)
collect_selections(profile_data, profile, ms, bankroll, now) ==
    IF profile_data = <<>> THEN <<>>
    ELSE process_match(profile_data[1], profile, ms, bankroll, now)
         \o collect_selections(Tail(profile_data), profile, ms, bankroll, now)

select_matches(df, profile, ms, bankroll, now) ==
    LET profile_data == SelectSeq(df, LAMBDA r : r[profile] = 1)
    IN  IF ms = {} THEN <<>>
        ELSE IF profile_data = <<>> THEN <<>>
        ELSE apply_selection_limits(
                 collect_selections(profile_data, profile, ms, bankroll, now), profile)

\* update_performance: the loop over selections_history, left at the first
\* settlement after which (bankroll - current_bankroll) / bankroll exceeds
\* stop_loss_percentage
RECURSIVE update_performance(_, _, _)
update_performance(history, res, current) ==
    IF history = <<>> THEN current
    ELSE IF history[1].match_id \notin DOMAIN res
         THEN update_performance(Tail(history), res, current)
         ELSE LET after == IF res[history[1].match_id]
                           THEN current + (history[1].stake_amount * (history[1].odds - 100)) \div 100
                           ELSE current - history[1].stake_amount
              IN  IF 100 * (engine_bankroll - after)
                         > criteria.stop_loss_percentage * engine_bankroll
                  THEN after
                  ELSE update_performance(Tail(history), res, after)

\* get_performance_metrics: {} without selections_history, else the metrics
\* (the bankroll ratios; total_stake and the three averages are left out)
get_performance_metrics(history, current) ==
    IF history = <<>> THEN [kind |-> "empty"]
    ELSE [kind |-> "metrics",
          total_selections |-> Len(history),
          current_bankroll |-> current,
          roi |-> <<current - engine_bankroll, engine_bankroll>>,
          drawdown |-> <<Max(engine_bankroll, current) - current,
                         Max(engine_bankroll, current)>>]

(***************************************************************************)
(* Rows of the DataFrame                                                   *)
(***************************************************************************)
Quote(p, imp, o, c) == [p |-> p, imp |-> imp, o |-> o, c |-> c]

MkRow(id, teams, profile, qo, qu, lineup, goals, date) ==
    [match_id |-> id, teams |-> teams,
     profile_a |-> IF profile = "profile_a" THEN 1 ELSE 0,
     profile_b |-> IF profile = "profile_b" THEN 1 ELSE 0,
     over_model |-> qo.p, under_model |-> qu.p,
     implied_over_prob |-> qo.imp, implied_under_prob |-> qu.imp,
     opening_over_odds |-> qo.o, opening_under_odds |-> qu.o,
     closing_over_odds |-> qo.c, closing_under_odds |-> qu.c,
     lineup_confirmed |-> lineup, market_drift_1h |-> 0,
     goals_total |-> goals, date |-> date]

\* model probability, implied probability, opening odds, closing odds
QPass80 == Quote(80, 50, 200, 180)      \* passes, stake capped at 2%
QEdge72 == Quote(72, 70, 140, 130)      \* edge 0.02 < 0.03
QPass72 == Quote(72, 69, 140, 130)      \* passes, stake below the cap
QEdge76 == Quote(76, 73, 150, 140)      \* edge 0.03 < 0.04
QPass76 == Quote(76, 72, 150, 140)      \* passes
QEdge81 == Quote(81, 77, 150, 140)      \* edge 0.04 < 0.05
QLow65 == Quote(65, 40, 200, 180)       \* confidence below 0.70
QFlat80 == Quote(80, 50, 200, 200)      \* closing = opening, CLV 0
QOpen80 == Quote(80, 50, 200, NoClosing) \* no closing odds in the row
QZero80 == Quote(80, 50, 0, 180)        \* odds 0
QEven80 == Quote(80, 50, 100, 90)       \* odds 1.00, b = 0
QNeg70 == Quote(70, 67, 120, 110)       \* passes, Kelly fraction negative
QSub80 == Quote(80, 50, 90, 80)         \* odds 0.90, b < 0
QFail80 == Quote(PredictError, 50, 200, 180) \* every predict_proba raises
QTie80 == Quote(80, 60, 200, 180)       \* passes, confidence 0.80 with edge 0.20

OverQuotes == {QPass80, QEdge72, QPass72, QEdge76, QPass76, QEdge81, QLow65,
               QFlat80, QOpen80, QZero80, QEven80, QNeg70, QSub80, QFail80,
               QTie80}
UnderQuotes == {QLow65, QPass76}

EngineRows(id) ==
    {MkRow(id, id, pr, qo, qu, TRUE, 3, 0) :
        pr \in Profiles, qo \in OverQuotes, qu \in UnderQuotes}

MoreRows(id) ==
    {MkRow(id, id, "profile_a", qo, qu, TRUE, 3, 0) :
        qo \in {QPass80, QPass72, QEdge76}, qu \in UnderQuotes}

\* number of rows of the DataFrame given to the engine
MaxRows == 2

\* the DataFrames of n rows: row 1 from EngineRows, row i from MoreRows(i)
RECURSIVE FramesOfLen(_)
FramesOfLen(n) ==
    IF n = 1 THEN {<<r>> : r \in EngineRows(1)}
    ELSE {Append(f, r) : f \in FramesOfLen(n - 1), r \in MoreRows(n)}

EngineFrames == UNION {FramesOfLen(n) : n \in 1..MaxRows}

\* dictionaries load_models is given: all four keys, one key missing
ModelSets == {AllModelKeys, AllModelKeys \ {<<"profile_a", "under_2_5">>}}

(***************************************************************************)
(* State after construction of each component                              *)
(***************************************************************************)
EngineIdle ==
    /\ models = {}
    /\ e_df = <<>>
    /\ e_out = <<>>
    /\ e_pc = "ready"
    /\ e_bankroll = engine_bankroll
    /\ selections_history = <<>>
    /\ criteria = SelectionCriteria

NoPerformance == [wins |-> 0, losses |-> 0, profit_loss |-> 0, total_stake |-> 0,
                  max_drawdown |-> <<0, 1>>]
NoOverall == [kind |-> "none"]

BacktestIdle ==
    /\ weekly_groups = <<>>
    /\ trained_through = 0
    /\ initial_bankroll = 1000000
    /\ current_bankroll = 1000000
    /\ bankroll_history = <<1000000>>
    /\ round_reports = <<>>
    /\ bt_pc = "idle"
    /\ week_df = <<>>
    /\ all_selections = <<>>
    /\ results = <<>>
    /\ performance = NoPerformance
    /\ settle_i = 0
    /\ ledger_log = <<>>
    /\ overall = NoOverall

LiveIdle ==
    /\ clock = 0
    /\ feed = <<>>
    /\ lv_pc = "idle"
    /\ upcoming_matches = <<>>
    /\ emitted = <<>>
    /\ alerts = <<>>
    /\ cycles = 0

SchedIdle ==
    /\ sc_pc = "idle"
    /\ sc_clock = 0
    /\ next_run = <<>>
    /\ fired = <<>>
    /\ coroutines = 0
    /\ running = 0

NoRequest == [ip |-> "none", time |-> 0, status_code |-> 0]

\* RateLimitMiddleware(app): the default of calls_per_minute
calls_per_minute == 100

WeeksIdle ==
    /\ gw_dates = <<>>
    /\ gw_groups = <<>>
    /\ gw_done = <<>>
    /\ gw_pc = "idle"

RateIdle ==
    /\ rl_clients = <<>>
    /\ rl_now = 0
    /\ rl_forwarded = <<>>
    /\ rl_last = NoRequest
    /\ rl_requests = 0
    /\ rl_limit = calls_per_minute

(***************************************************************************)
(* SpecEngine: select_matches applied to bounded DataFrames                *)
(***************************************************************************)
EngineInit ==
    /\ models = {}
    /\ e_df \in EngineFrames
    /\ e_out = <<>>
    /\ e_pc = "ready"
    /\ e_bankroll = engine_bankroll
    /\ selections_history = <<>>
    /\ criteria = SelectionCriteria
    /\ BacktestIdle /\ LiveIdle /\ SchedIdle
    /\ WeeksIdle /\ RateIdle

\* SelectionEngine(criteria) with a configuration of the caller
EngineCfgInit ==
    /\ models = {}
    /\ e_df \in EngineFrames
    /\ e_out = <<>>
    /\ e_pc = "ready"
    /\ e_bankroll = engine_bankroll
    /\ selections_history = <<>>
    /\ criteria \in Configurations
    /\ BacktestIdle /\ LiveIdle /\ SchedIdle
    /\ WeeksIdle /\ RateIdle

\* SelectionEngine.load_models
LoadModels ==
    /\ models = {}
    /\ \E ms \in ModelSets : models' = ms
    /\ UNCHANGED <<e_df, e_out, e_pc, e_bankroll, selections_history, criteria>>
    /\ UNCHANGED <<backtest_vars, live_vars, sched_vars, weeks_vars, rate_vars>>

\* SelectionEngine.select_matches(df, profile)
SelectMatches ==
    /\ \E profile \in Profiles :
          /\ e_pc # profile
          /\ e_out' = select_matches(e_df, profile, models, e_bankroll, 0)
          /\ e_pc' = profile
    /\ UNCHANGED <<models, e_df, e_bankroll, selections_history, criteria>>
    /\ UNCHANGED <<backtest_vars, live_vars, sched_vars, weeks_vars, rate_vars>>

\* SelectionEngine.update_performance(results), results of the matches of e_df
UpdatePerformance ==
    /\ e_pc \in Profiles
    /\ \E res \in [{e_df[i].match_id : i \in 1..Len(e_df)} -> BOOLEAN] :
          e_bankroll' = update_performance(selections_history, res, e_bankroll)
    /\ e_pc' = "updated"
    /\ UNCHANGED <<models, e_df, e_out, selections_history, criteria>>
    /\ UNCHANGED <<backtest_vars, live_vars, sched_vars, weeks_vars, rate_vars>>

EngineNext == LoadModels \/ SelectMatches \/ UpdatePerformance

SpecEngine == EngineInit /\ [][EngineNext]_vars

SpecEngineCfg == EngineCfgInit /\ [][EngineNext]_vars

(***************************************************************************)
(* Properties of SpecEngine                                                *)
(***************************************************************************)
VariantTarget(t) == IF t = "over" THEN "over_2_5" ELSE "under_2_5"

\* confidence and implied probability the engine sees for a row and variant
RowConfidence(r, profile, t) ==
    LET raw == IF t = "over" THEN r.over_model ELSE r.under_model
    IN  IF <<profile, VariantTarget(t)>> \in models /\ raw # PredictError
        THEN raw ELSE 50

RowImplied(r, t) == IF t = "over" THEN r.implied_over_prob ELSE r.implied_under_prob

Returned(id, t) ==
    \E i \in 1..Len(e_out) : e_out[i].match_id = id /\ e_out[i].selection_type = t

\* C4: every Selection select_matches returns has confidence >= 0.70 and
\* edge = confidence - implied probability >= 0.05 / 0.04 / 0.03 for the
\* buckets >= 0.80 / >= 0.75 / below; a candidate failing either gate has no
\* Selection in the returned list.
C4_GatesHold ==
    /\ \A i \in 1..Len(e_out) :
          LET s == e_out[i] IN
          /\ s.confidence >= 70
          /\ s.edge = s.confidence - s.implied_prob
          /\ s.edge >= (IF s.confidence >= 80 THEN 5
                        ELSE IF s.confidence >= 75 THEN 4 ELSE 3)
    /\ e_pc \in Profiles =>
          \A i \in 1..Len(e_df) : \A t \in {"over", "under"} :
              LET c == RowConfidence(e_df[i], e_pc, t)
                  e == c - RowImplied(e_df[i], t)
              IN  (c < 70 \/ e < (IF c >= 80 THEN 5 ELSE IF c >= 75 THEN 4 ELSE 3))
                      => ~Returned(e_df[i].match_id, t)

\* a run where confidence 0.72 against implied 0.70 was rejected while
\* another candidate of the same call was selected
C4_Witness ==
    /\ e_pc \in Profiles
    /\ e_out # <<>>
    /\ \E i \in 1..Len(e_df) :
          /\ e_df[i][e_pc] = 1
          /\ RowConfidence(e_df[i], e_pc, "over") = 72
          /\ e_df[i].implied_over_prob = 70
          /\ ~Returned(e_df[i].match_id, "over")

\* C5: every returned Selection has 0 <= stake_amount <=
\* bankroll * max_stake_percentage.
C5_StakeInRange ==
    \A i \in 1..Len(e_out) :
        /\ e_out[i].stake_amount >= 0
        /\ 100 * e_out[i].stake_amount <= 2 * e_bankroll

\* one call returning a zero stake, a stake below the cap and a capped stake
C5_Witness ==
    /\ \E i \in 1..Len(e_out) : e_out[i].stake_amount = 0
    /\ \E i \in 1..Len(e_out) :
          /\ e_out[i].stake_amount > 0
          /\ 100 * e_out[i].stake_amount < 2 * e_bankroll
    /\ \E i \in 1..Len(e_out) : 100 * e_out[i].stake_amount = 2 * e_bankroll

\* C11: select_matches never returns two Selections for the same match.
C11_OneSelectionPerMatch ==
    \A i \in 1..Len(e_out) : \A j \in 1..Len(e_out) :
        e_out[i].match_id = e_out[j].match_id => i = j

\* C13: a candidate variant whose market odds are <= 1.00 (0 included) has
\* no Selection in the list select_matches returns.
C13_NoSelectionOnMalformedOdds ==
    \A i \in 1..Len(e_out) : e_out[i].odds > 100

\* C14: whatever the SelectionCriteria, no returned Selection is for a
\* (profile, variant) key that has no model: none carries the stand-in
\* probability 0.5 of a missing model.
C14_NoSelectionWithoutModel ==
    \A i \in 1..Len(e_out) :
        <<e_out[i].profile, VariantTarget(e_out[i].selection_type)>> \in models

\* min(max(0, kelly_fraction * ((b*p - q)/b)), max_stake_percentage) with
\* b = odds - 1, q = 1 - p, as a rational in lowest terms (b # 0)
KellyFormula(p, odds) ==
    LET b == odds - 100
        num == kelly_fraction * (b * p - 100 * (100 - p))
        f == IF b > 0 THEN <<num, 10000 * b>> ELSE <<0 - num, 0 - 10000 * b>>
        floored == IF f[1] <= 0 THEN <<0, 1>> ELSE Rat(f[1], f[2])
    IN  IF 100 * floored[1] > max_stake_percentage * floored[2]
        THEN Rat(max_stake_percentage, 100) ELSE floored

SameRational(r, q) == r[1] * q[2] = q[1] * r[2]

\* C20: the stake fraction of every returned Selection is
\* min(max(0, kelly_fraction * ((b*p - q)/b)), max_stake_percentage) with
\* b = odds - 1, p = confidence, q = 1 - p, its stake_amount is the bankroll
\* times that fraction, and odds 2.00 with confidence 0.80 give 0.02.
C20_KellyStake ==
    /\ SameRational(KellyFormula(80, 200), <<2, 100>>)
    /\ \A i \in 1..Len(e_out) :
          LET s == e_out[i]
              f == KellyFormula(s.confidence, s.odds)
          IN  s.odds # 100 =>
                 /\ SameRational(s.stake_percentage, f)
                 /\ s.stake_amount = (e_bankroll * f[1]) \div f[2]

\* opening and closing odds the engine reads for a row and variant
RowOdds(r, t) == IF t = "over" THEN r.opening_over_odds ELSE r.opening_under_odds

RowClosing(r, t) == IF t = "over" THEN r.closing_over_odds ELSE r.closing_under_odds

\* confidence and edge gates of a row and variant, as the claims state them
PassesConfidenceAndEdge(r, profile, t) ==
    LET c == RowConfidence(r, profile, t)
        e == c - RowImplied(r, t)
    IN  c >= 70 /\ e >= (IF c >= 80 THEN 5 ELSE IF c >= 75 THEN 4 ELSE 3)

\* C21: the CLV gate applies only when closing odds are known.  Of the rows
\* of the requested profile, a variant without closing odds that passes the
\* confidence and edge gates (odds above 1.00, the other variant of the match
\* evaluated without error) has a Selection in the returned list, and a
\* variant with closing odds has one only if 1/closing - 1/opening >= 0.02.
C21_ClvGateOnlyWithClosing ==
    (e_pc \in Profiles /\ models = AllModelKeys) =>
        \A i \in 1..Len(e_df) : \A t \in {"over", "under"} :
            LET r == e_df[i]
                o == RowOdds(r, t)
                c == RowClosing(r, t)
            IN  (r[e_pc] = 1 /\ o > 100
                    /\ r.opening_over_odds > 0 /\ r.opening_under_odds > 0) =>
                   /\ (c = NoClosing /\ PassesConfidenceAndEdge(r, e_pc, t))
                          => Returned(r.match_id, t)
                   /\ (c # NoClosing /\ c > 0 /\ Returned(r.match_id, t))
                          => RatGePct(<<100 * (o - c), o * c>>, 2)

\* C27: the returned list is in one deterministic order: by confidence,
\* descending; among equal confidences by edge, descending; among equal
\* confidences and edges by match id.
C27_RankingBreaksTies ==
    \A i \in 1..Len(e_out) : \A j \in 1..Len(e_out) :
        i < j =>
            \/ e_out[i].confidence > e_out[j].confidence
            \/ /\ e_out[i].confidence = e_out[j].confidence
               /\ e_out[i].edge > e_out[j].edge
            \/ /\ e_out[i].confidence = e_out[j].confidence
               /\ e_out[i].edge = e_out[j].edge
               /\ e_out[i].match_id <= e_out[j].match_id

(***************************************************************************)
(* SelectionEngineBacktester                                               *)
(***************************************************************************)
\* number of weekly windows of the backtest period
MaxWeeks == 3

\* run_backtest: a week is skipped with fewer historical records than this
min_historical == 100

\* SelectionEngineBacktester(selection_engine, bankroll): the default and a
\* small bankroll
InitialBankrolls == {1000000, 50000}

\* rows of a week that belong to neither profile (select_matches drops them)
FillerCounts == {40, 100}

\* _group_by_weeks: week k holds the records dated 7k .. 7k+6
WeekStart(k) == 7 * k
WeekEnd(k) == 7 * k + 6
LastDay == WeekEnd(MaxWeeks)

\* the data the loaded models were fitted on ends before the backtest
\* period, or is the whole dataset (runner: train_models(df) and
\* run_backtest(df) on one df)
TrainedThrough == {0, LastDay}

RowWin(id) == MkRow(id, id, "profile_a", QPass80, QLow65, TRUE, 3, 0)
RowLose(id) == MkRow(id, id, "profile_a", QPass80, QLow65, TRUE, 2, 0)
RowLoseB(id) == MkRow(id, id, "profile_b", QPass76, QLow65, TRUE, 2, 0)
RowBoth(id) == MkRow(id, id, "profile_a", QPass72, QPass76, TRUE, 3, 0)
RowReject(id) == MkRow(id, id, "profile_a", QLow65, QLow65, TRUE, 3, 0)

\* goals_total of a record without a usable result: a NaN cell, and a cell
\* that is not a number (a string in an object column)
NaNGoals == -1
BadGoals == -2

RowNaN(id) == MkRow(id, id, "profile_a", QPass80, QLow65, TRUE, NaNGoals, 0)
RowBad(id) == MkRow(id, id, "profile_a", QPass80, QLow65, TRUE, BadGoals, 0)

WeekFrames(k) ==
    {<<>>,
     <<RowReject(10 * k + 1)>>,
     <<RowWin(10 * k + 1)>>,
     <<RowLose(10 * k + 1)>>,
     <<RowLose(10 * k + 1), RowLoseB(10 * k + 2)>>,
     <<RowWin(10 * k + 1), RowBoth(10 * k + 2)>>,
     <<RowBoth(10 * k + 1), RowLose(10 * k + 2)>>,
     <<RowWin(10 * k + 1), RowLose(10 * k + 2), RowWin(10 * k + 3), RowLose(10 * k + 4)>>,
     <<RowNaN(10 * k + 1)>>,
     <<RowWin(10 * k + 1), RowBad(10 * k + 2)>>}

\* a week the loop skips: its records are counted by the later weeks and
\* never read
SkippedFrames(k) == {<<>>, <<RowWin(10 * k + 1)>>}

\* backtest_data[backtest_data['date'] < week_data['start_date']]
RECURSIVE historical_len(_, _)
historical_len(groups, start_date) ==
    IF groups = <<>> THEN 0
    ELSE (IF groups[1].end_date < start_date THEN groups[1].total_matches ELSE 0)
         + historical_len(Tail(groups), start_date)

\* goals_total > 2.5 / goals_total < 2.5: both False on NaN
goals_over(goals_total) == goals_total # NaNGoals /\ goals_total >= 3
goals_under(goals_total) == goals_total # NaNGoals /\ goals_total <= 2

\* the outcome _simulate_results gives one selection
simulate_one(selection, df, coin) ==
    LET match == SelectSeq(df, LAMBDA r : r.teams = selection.teams)
    IN  IF match = <<>> THEN coin      \* np.random.random() < win_prob
        ELSE IF selection.selection_type = "over"
             THEN goals_over(match[1].goals_total)
             ELSE goals_under(match[1].goals_total)

\* _simulate_results leaves by an exception: the comparison of a goals_total
\* that is not a number raises TypeError
simulate_raises(selections, df) ==
    \E i \in 1..Len(selections) :
        \E j \in 1..Len(df) :
            df[j].teams = selections[i].teams /\ df[j].goals_total = BadGoals

\* results[selection.match_id] = result, later selections overwrite
simulate_results(selections, df, coin) ==
    [id \in {selections[i].match_id : i \in 1..Len(selections)} |->
        LET last == CHOOSE i \in 1..Len(selections) :
                        /\ selections[i].match_id = id
                        /\ \A j \in 1..Len(selections) :
                               selections[j].match_id = id => j <= i
        IN  simulate_one(selections[last], df, coin)]

win_profit(selection) == (selection.stake_amount * (selection.odds - 100)) \div 100

\* settle_one with the stake of a lost selection added instead of subtracted
settle_one_flipped(balance, selection, res) ==
    IF selection.match_id \in DOMAIN res
    THEN IF res[selection.match_id]
         THEN balance + win_profit(selection)
         ELSE balance + selection.stake_amount
    ELSE balance

\* one iteration of the loop of _update_bankroll
settle_one(balance, selection, res) ==
    IF selection.match_id \in DOMAIN res
    THEN IF res[selection.match_id]
         THEN balance + win_profit(selection)
         ELSE balance - selection.stake_amount
    ELSE balance

RECURSIVE count_wins(_, _)
count_wins(selections, res) ==
    IF selections = <<>> THEN 0
    ELSE (IF selections[1].match_id \in DOMAIN res /\ res[selections[1].match_id]
          THEN 1 ELSE 0) + count_wins(Tail(selections), res)

RECURSIVE count_losses(_, _)
count_losses(selections, res) ==
    IF selections = <<>> THEN 0
    ELSE (IF selections[1].match_id \in DOMAIN res /\ ~res[selections[1].match_id]
          THEN 1 ELSE 0) + count_losses(Tail(selections), res)

RECURSIVE sum_profit_loss(_, _)
sum_profit_loss(selections, res) ==
    IF selections = <<>> THEN 0
    ELSE (IF selections[1].match_id \in DOMAIN res
          THEN IF res[selections[1].match_id]
               THEN win_profit(selections[1])
               ELSE 0 - selections[1].stake_amount
          ELSE 0)
         + sum_profit_loss(Tail(selections), res)

RECURSIVE sum_stake(_)
sum_stake(selections) ==
    IF selections = <<>> THEN 0
    ELSE selections[1].stake_amount + sum_stake(Tail(selections))

\* (peak - current) / peak if peak > 0 else 0, as <<numerator, denominator>>
week_drawdown(history, current) ==
    LET peak == IF history # <<>> THEN SeqMax(history) ELSE current
    IN  IF peak > 0 THEN <<peak - current, peak>> ELSE <<0, 1>>

\* the week's profit_loss taken as the gross return, stakes not deducted
calculate_week_performance_gross(selections, res, history, current) ==
    [wins |-> count_wins(selections, res),
     losses |-> count_losses(selections, res),
     profit_loss |-> sum_profit_loss(selections, res) + sum_stake(selections),
     total_stake |-> sum_stake(selections),
     max_drawdown |-> week_drawdown(history, current)]

\* _calculate_week_performance
calculate_week_performance(selections, res, history, current) ==
    [wins |-> count_wins(selections, res),
     losses |-> count_losses(selections, res),
     profit_loss |-> sum_profit_loss(selections, res),
     total_stake |-> sum_stake(selections),
     max_drawdown |-> week_drawdown(history, current)]

RECURSIVE sum_field(_, _)
sum_field(reports, f) ==
    IF reports = <<>> THEN 0 ELSE reports[1][f] + sum_field(Tail(reports), f)

\* (peak_bankroll - min(bankroll_history)) / peak_bankroll
overall_drawdown(history) == <<SeqMax(history) - SeqMin(history), SeqMax(history)>>

calculate_overall_results(reports, history, current, initial) ==
    IF reports = <<>>
    THEN [kind |-> "results", total_rounds |-> 0, total_selections |-> 0,
          total_wins |-> 0, overall_roi |-> <<0, 1>>, max_drawdown |-> <<0, 1>>]
    ELSE [kind |-> "results",
          total_rounds |-> Len(reports),
          total_selections |-> sum_field(reports, "selections"),
          total_wins |-> sum_field(reports, "wins"),
          overall_roi |-> <<current - initial, initial>>,
          max_drawdown |-> overall_drawdown(history)]

\* the ledger drawdown is above stop_loss_percentage
StopLossExceeded(history, current) ==
    LET d == week_drawdown(history, current)
    IN  100 * d[1] > criteria.stop_loss_percentage * d[2]

\* the for loop of run_backtest stops at the first week after a stop loss
HasNextWeekUnlessHalted ==
    /\ Len(weekly_groups) < MaxWeeks
    /\ ~StopLossExceeded(bankroll_history, current_bankroll)

\* for week_num, week_data in weekly_groups.items(): no break in the body
HasNextWeek == Len(weekly_groups) < MaxWeeks

WeekMeta(k, fill, df, outcome) ==
    [week_key |-> k, start_date |-> WeekStart(k), end_date |-> WeekEnd(k),
     total_matches |-> fill + Len(df),
     historical |-> historical_len(weekly_groups, WeekStart(k)),
     halted_before |-> StopLossExceeded(bankroll_history, current_bankroll),
     fit_through |-> trained_through,
     qualifying |-> Cardinality({i \in 1..Len(df) : df[i].over_model = 80
                                    /\ df[i].implied_over_prob = 50
                                    /\ df[i].opening_over_odds = 200
                                    /\ df[i].closing_over_odds = 180}),
     malformed |-> {df[i].match_id : i \in {j \in 1..Len(df) :
                                        df[j].goals_total \in {NaNGoals, BadGoals}}},
     outcome |-> outcome]

BacktestInit ==
    /\ models = AllModelKeys
    /\ e_df = <<>> /\ e_out = <<>> /\ e_pc = "ready"
    /\ e_bankroll = engine_bankroll /\ selections_history = <<>>
    /\ criteria = SelectionCriteria
    /\ weekly_groups = <<>>
    /\ trained_through \in TrainedThrough
    /\ initial_bankroll \in InitialBankrolls
    /\ current_bankroll = initial_bankroll
    /\ bankroll_history = <<initial_bankroll>>
    /\ round_reports = <<>>
    /\ bt_pc = "loop"
    /\ week_df = <<>>
    /\ all_selections = <<>>
    /\ results = <<>>
    /\ performance = NoPerformance
    /\ settle_i = 0
    /\ ledger_log = <<>>
    /\ overall = NoOverall
    /\ LiveIdle /\ SchedIdle
    /\ WeeksIdle /\ RateIdle

\* run_backtest, loop body: len(historical_data) < 100, continue
SkipWeek ==
    /\ bt_pc = "loop" /\ HasNextWeek
    /\ LET k == Len(weekly_groups) + 1 IN
       \E fill \in FillerCounts, df \in SkippedFrames(k) :
          /\ historical_len(weekly_groups, WeekStart(k)) < min_historical
          /\ weekly_groups' = Append(weekly_groups, WeekMeta(k, fill, df, "skipped"))
    /\ UNCHANGED <<trained_through, initial_bankroll, current_bankroll,
                   bankroll_history, round_reports, bt_pc, week_df,
                   all_selections, results, performance, settle_i, ledger_log,
                   overall>>
    /\ UNCHANGED <<engine_vars, live_vars, sched_vars, weeks_vars, rate_vars>>

week_selections(df) ==
    select_matches(df, "profile_a", models, e_bankroll, 0)
    \o select_matches(df, "profile_b", models, e_bankroll, 0)

\* a week without selections that still appends the balance to the history
EmptyWeekRecorded ==
    /\ bt_pc = "loop" /\ HasNextWeek
    /\ LET k == Len(weekly_groups) + 1 IN
       \E fill \in FillerCounts, df \in WeekFrames(k) :
          /\ historical_len(weekly_groups, WeekStart(k)) >= min_historical
          /\ week_selections(df) = <<>>
          /\ weekly_groups' = Append(weekly_groups, WeekMeta(k, fill, df, "none"))
    /\ bankroll_history' = Append(bankroll_history, current_bankroll)
    /\ UNCHANGED <<trained_through, initial_bankroll, current_bankroll,
                   round_reports, bt_pc, week_df,
                   all_selections, results, performance, settle_i, ledger_log,
                   overall>>
    /\ UNCHANGED <<engine_vars, live_vars, sched_vars, weeks_vars, rate_vars>>

\* run_backtest, loop body: _test_week returns None (no selections)
EmptyWeek ==
    /\ bt_pc = "loop" /\ HasNextWeek
    /\ LET k == Len(weekly_groups) + 1 IN
       \E fill \in FillerCounts, df \in WeekFrames(k) :
          /\ historical_len(weekly_groups, WeekStart(k)) >= min_historical
          /\ week_selections(df) = <<>>
          /\ weekly_groups' = Append(weekly_groups, WeekMeta(k, fill, df, "none"))
    /\ UNCHANGED <<trained_through, initial_bankroll, current_bankroll,
                   bankroll_history, round_reports, bt_pc, week_df,
                   all_selections, results, performance, settle_i, ledger_log,
                   overall>>
    /\ UNCHANGED <<engine_vars, live_vars, sched_vars, weeks_vars, rate_vars>>

\* run_backtest, loop body: _test_week up to the call of _update_bankroll
TestWeek ==
    /\ bt_pc = "loop" /\ HasNextWeek
    /\ LET k == Len(weekly_groups) + 1 IN
       \E fill \in FillerCounts, df \in WeekFrames(k), coin \in BOOLEAN :
          /\ historical_len(weekly_groups, WeekStart(k)) >= min_historical
          /\ week_selections(df) # <<>>
          /\ ~simulate_raises(week_selections(df), df)
          /\ weekly_groups' = Append(weekly_groups, WeekMeta(k, fill, df, "tested"))
          /\ week_df' = df
          /\ all_selections' = week_selections(df)
          /\ results' = simulate_results(week_selections(df), df, coin)
          /\ performance' = calculate_week_performance(week_selections(df),
                                simulate_results(week_selections(df), df, coin),
                                bankroll_history, current_bankroll)
    /\ settle_i' = 1
    /\ bt_pc' = "settle"
    /\ UNCHANGED <<trained_through, initial_bankroll, current_bankroll,
                   bankroll_history, round_reports, ledger_log, overall>>
    /\ UNCHANGED <<engine_vars, live_vars, sched_vars, weeks_vars, rate_vars>>

\* run_backtest, loop body: _simulate_results raises inside _test_week;
\* neither _test_week nor run_backtest has a handler, the exception leaves
\* run_backtest
TestWeekRaises ==
    /\ bt_pc = "loop" /\ HasNextWeek
    /\ LET k == Len(weekly_groups) + 1 IN
       \E fill \in FillerCounts, df \in WeekFrames(k) :
          /\ historical_len(weekly_groups, WeekStart(k)) >= min_historical
          /\ week_selections(df) # <<>>
          /\ simulate_raises(week_selections(df), df)
          /\ weekly_groups' = Append(weekly_groups, WeekMeta(k, fill, df, "raised"))
    /\ bt_pc' = "raised"
    /\ UNCHANGED <<trained_through, initial_bankroll, current_bankroll,
                   bankroll_history, round_reports, week_df, all_selections,
                   results, performance, settle_i, ledger_log, overall>>
    /\ UNCHANGED <<engine_vars, live_vars, sched_vars, weeks_vars, rate_vars>>

\* run_backtest is left by KeyboardInterrupt or a cancellation of its
\* caller, between two weeks or between two statements of _update_bankroll:
\* no handler, nothing is rolled back
Interrupt ==
    /\ bt_pc \in {"loop", "settle"}
    /\ bt_pc' = "interrupted"
    /\ UNCHANGED <<weekly_groups, trained_through, initial_bankroll,
                   current_bankroll, bankroll_history, round_reports, week_df,
                   all_selections, results, performance, settle_i, ledger_log,
                   overall>>
    /\ UNCHANGED <<engine_vars, live_vars, sched_vars, weeks_vars, rate_vars>>

\* _update_bankroll: one iteration of the loop over selections
Settle ==
    /\ bt_pc = "settle"
    /\ settle_i <= Len(all_selections)
    /\ current_bankroll' = settle_one(current_bankroll, all_selections[settle_i], results)
    /\ ledger_log' = Append(ledger_log, current_bankroll' - current_bankroll)
    /\ settle_i' = settle_i + 1
    /\ UNCHANGED <<weekly_groups, trained_through, initial_bankroll,
                   bankroll_history, round_reports, bt_pc, week_df,
                   all_selections, results, performance, overall>>
    /\ UNCHANGED <<engine_vars, live_vars, sched_vars, weeks_vars, rate_vars>>

\* _update_bankroll: bankroll_history.append; _test_week: the RoundReport;
\* run_backtest: round_reports.append
RecordWeek ==
    /\ bt_pc = "settle"
    /\ settle_i > Len(all_selections)
    /\ bankroll_history' = Append(bankroll_history, current_bankroll)
    /\ round_reports' = Append(round_reports,
          [round_id |-> weekly_groups[Len(weekly_groups)].week_key,
           start_date |-> weekly_groups[Len(weekly_groups)].start_date,
           end_date |-> weekly_groups[Len(weekly_groups)].end_date,
           total_matches |-> weekly_groups[Len(weekly_groups)].total_matches,
           selections |-> Len(all_selections),
           wins |-> performance.wins,
           losses |-> performance.losses,
           total_stake |-> performance.total_stake,
           profit_loss |-> performance.profit_loss,
           max_drawdown |-> performance.max_drawdown,
           picks |-> all_selections,
           outcomes |-> results])
    /\ bt_pc' = "loop"
    /\ week_df' = <<>>
    /\ all_selections' = <<>>
    /\ results' = <<>>
    /\ performance' = NoPerformance
    /\ settle_i' = 0
    /\ UNCHANGED <<weekly_groups, trained_through, initial_bankroll,
                   current_bankroll, ledger_log, overall>>
    /\ UNCHANGED <<engine_vars, live_vars, sched_vars, weeks_vars, rate_vars>>

\* run_backtest: after the loop, _calculate_overall_results
Finish ==
    /\ bt_pc = "loop" /\ ~HasNextWeek
    /\ overall' = calculate_overall_results(round_reports, bankroll_history,
                                            current_bankroll, initial_bankroll)
    /\ bt_pc' = "done"
    /\ UNCHANGED <<weekly_groups, trained_through, initial_bankroll,
                   current_bankroll, bankroll_history, round_reports, week_df,
                   all_selections, results, performance, settle_i, ledger_log>>
    /\ UNCHANGED <<engine_vars, live_vars, sched_vars, weeks_vars, rate_vars>>

BacktestNext ==
    \/ SkipWeek \/ EmptyWeek \/ TestWeek \/ TestWeekRaises \/ Settle
    \/ RecordWeek \/ Finish \/ Interrupt

SpecBacktest == BacktestInit /\ [][BacktestNext]_vars

(***************************************************************************)
(* Properties of SpecBacktest                                              *)
(***************************************************************************)
\* signed profit and loss of a settled selection: +stake*(odds-1) or -stake
Pnl(s, res) ==
    IF res[s.match_id] THEN (s.stake_amount * (s.odds - 100)) \div 100
    ELSE 0 - s.stake_amount

RECURSIVE SumPnl(_, _)
SumPnl(sels, res) ==
    IF sels = <<>> THEN 0 ELSE Pnl(sels[1], res) + SumPnl(Tail(sels), res)

RECURSIVE ReportsPnl(_)
ReportsPnl(reports) ==
    IF reports = <<>> THEN 0
    ELSE SumPnl(reports[1].picks, reports[1].outcomes) + ReportsPnl(Tail(reports))

\* C6: after any number of settlements the ledger balance is the initial
\* balance plus the signed profit and loss of every selection settled so
\* far, each counted once (all selections of the finished weeks and the
\* first settle_i - 1 of the week being settled).
C6_LedgerBalance ==
    current_bankroll = initial_bankroll + ReportsPnl(round_reports)
        + (IF settle_i > 0
           THEN SumPnl(SubSeq(all_selections, 1, settle_i - 1), results)
           ELSE 0)

\* a finished run of two settled weeks with wins and losses
C6_Witness ==
    /\ bt_pc = "done"
    /\ Len(round_reports) = 2
    /\ sum_field(round_reports, "wins") >= 1
    /\ sum_field(round_reports, "losses") >= 1
    /\ current_bankroll # initial_bankroll

InUnitInterval(d) == d[1] >= 0 /\ d[1] <= d[2]

\* C7: every drawdown computed or reported (the week's max_drawdown, every
\* RoundReport.max_drawdown, BacktestResults.max_drawdown, the drawdown of
\* the engine's get_performance_metrics) lies in [0, 1].
C7_DrawdownInUnitInterval ==
    /\ LET metrics == get_performance_metrics(selections_history, e_bankroll)
       IN  metrics.kind = "metrics" => InUnitInterval(metrics.drawdown)
    /\ InUnitInterval(performance.max_drawdown)
    /\ \A i \in 1..Len(round_reports) : InUnitInterval(round_reports[i].max_drawdown)
    /\ overall.kind = "results" => InUnitInterval(overall.max_drawdown)

\* C8: once a settlement of the current window has brought the ledger
\* drawdown above stop_loss_percentage, no further selection is settled in
\* that window.
C8_HaltSticksInWindow ==
    [][(/\ bt_pc = "settle"
        /\ settle_i > 1
        /\ ~weekly_groups[Len(weekly_groups)].halted_before
        /\ StopLossExceeded(bankroll_history, current_bankroll))
       => ledger_log' = ledger_log]_vars

\* C9: a stop loss reached in an earlier week does not stop the run: the run
\* returns only after the last week, and a week that starts with the stop
\* loss exceeded, has its 100 historical records and holds a qualifying
\* candidate still gets its selections (it is tested, or its selections
\* were made and the simulation of their results raised).
C9_HaltDoesNotStopRun ==
    /\ bt_pc = "done" => Len(weekly_groups) = MaxWeeks
    /\ \A k \in 1..Len(weekly_groups) :
          (/\ weekly_groups[k].halted_before
           /\ weekly_groups[k].historical >= 100
           /\ weekly_groups[k].qualifying > 0)
          => weekly_groups[k].outcome \in {"tested", "raised"}

\* a finished run in which a week was tested after the stop loss was exceeded
C9_Witness ==
    /\ bt_pc = "done"
    /\ \E k \in 1..Len(weekly_groups) :
          /\ weekly_groups[k].halted_before
          /\ weekly_groups[k].outcome = "tested"
          /\ \E i \in 1..Len(round_reports) :
                /\ round_reports[i].round_id = k
                /\ round_reports[i].selections > 0

\* C10: the estimates consumed in a week come from models fitted only on
\* records dated strictly before the start of that week.
C10_NoLookahead ==
    \A k \in 1..Len(weekly_groups) :
        weekly_groups[k].outcome = "tested"
            => weekly_groups[k].fit_through < weekly_groups[k].start_date

CountProfile(sels, profile) ==
    Cardinality({i \in 1..Len(sels) : sels[i].profile = profile})

\* C12: the Selections of one backtest week are in descending confidence
\* order, at most max_selections_per_profile for each profile and at most
\* max_selections_per_round in total.
C12_RoundLimits ==
    /\ \A i \in 1..Len(all_selections) : \A j \in 1..Len(all_selections) :
          i < j => all_selections[i].confidence >= all_selections[j].confidence
    /\ \A profile \in Profiles :
          CountProfile(all_selections, profile) <= max_selections_per_profile
    /\ Len(all_selections) <= max_selections_per_round

\* C16: wherever the run stops on an interruption, current_bankroll is the
\* last entry of bankroll_history and no week is partly settled.
C16_InterruptLeavesCommittedLedger ==
    bt_pc = "interrupted" =>
        /\ current_bankroll = bankroll_history[Len(bankroll_history)]
        /\ ~(settle_i > 1 /\ settle_i <= Len(all_selections))

\* C17: a record without a usable result is skipped (no selection on it is
\* settled) and no fault leaves run_backtest: the run goes on to the
\* remaining weeks.
C17_MalformedRecordSkipped ==
    /\ bt_pc # "raised"
    /\ \A i \in 1..Len(round_reports) :
          \A j \in 1..Len(round_reports[i].picks) :
              round_reports[i].picks[j].match_id
                  \notin weekly_groups[round_reports[i].round_id].malformed

\* C18: with both bankrolls starting equal, the bankroll the engine sizes
\* the stakes of a week with is the ledger balance left by the settlements
\* of the weeks before it.
C18_SingleLedger ==
    (initial_bankroll = engine_bankroll /\ bt_pc = "settle" /\ settle_i = 1)
        => e_bankroll = current_bankroll

\* the outcome of a selection's own variant on the record of its own match
OwnOutcome(selection, df) ==
    LET row == CHOOSE r \in {df[j] : j \in 1..Len(df)} :
                   r.match_id = selection.match_id
    IN  IF selection.selection_type = "over" THEN row.goals_total >= 3
        ELSE row.goals_total # NaNGoals /\ row.goals_total <= 2

\* C25: every Selection of the week is settled with the outcome of its own
\* match and its own variant (over wins iff goals_total > 2.5, under iff
\* goals_total < 2.5), also when several Selections share a match id.
C25_SettledWithOwnOutcome ==
    bt_pc = "settle" =>
        \A i \in 1..Len(all_selections) :
            LET s == all_selections[i] IN
            /\ s.match_id \in DOMAIN results
            /\ results[s.match_id] = OwnOutcome(s, week_df)

\* the largest (running peak - balance) / running peak over the points of
\* the balance history, in lowest terms
RunningPeakDrawdown(history) ==
    LET At(i) == LET peak == SeqMax(SubSeq(history, 1, i))
                 IN  Rat(peak - history[i], peak)
        worst == CHOOSE i \in 1..Len(history) :
                     \A j \in 1..Len(history) :
                         At(i)[1] * At(j)[2] >= At(j)[1] * At(i)[2]
    IN  At(worst)

\* C26: the max_drawdown of the BacktestResults is the maximum over the
\* points of the balance history of (running peak - balance) / running
\* peak: a low that came before the highest peak is not measured against
\* that later peak.
C26_DrawdownFromRunningPeak ==
    (overall.kind = "results" /\ round_reports # <<>>) =>
        SameRational(Rat(overall.max_drawdown[1], overall.max_drawdown[2]),
                     RunningPeakDrawdown(bankroll_history))

\* C28: the profit_loss of every RoundReport is the change of the ledger
\* balance over its week, and its wins and losses add up to its selections.
C28_ReportMatchesLedger ==
    \A i \in 1..Len(round_reports) :
        /\ Len(bankroll_history) > i
        /\ round_reports[i].profit_loss = bankroll_history[i + 1] - bankroll_history[i]
        /\ round_reports[i].wins + round_reports[i].losses = round_reports[i].selections

\* a finished run of two reports, one of them with a win and a loss among
\* several selections and a balance change
C28_Witness ==
    /\ bt_pc = "done"
    /\ Len(round_reports) = 2
    /\ \E i \in 1..2 :
          /\ round_reports[i].selections >= 2
          /\ round_reports[i].wins >= 1
          /\ round_reports[i].losses >= 1
          /\ round_reports[i].profit_loss # 0
          /\ bankroll_history[i + 1] # bankroll_history[i]

\* a step that appends a skipped week or a week without selections leaves
\* the reports, the balance history and the balance as they are
QuietWeek ==
    (/\ Len(weekly_groups') = Len(weekly_groups) + 1
     /\ weekly_groups'[Len(weekly_groups')].outcome \in {"skipped", "none"})
        => UNCHANGED <<round_reports, bankroll_history, current_bankroll>>

\* C29: between two weeks and at the end of the run the balance history has
\* exactly one entry more than there are RoundReports; a skipped week and a
\* week without selections append no report and nothing to the balance
\* history and leave the balance unchanged.
C29_HistoryOnePerReport ==
    /\ [](bt_pc \in {"loop", "done"}
             => Len(bankroll_history) = Len(round_reports) + 1)
    /\ [][QuietWeek]_vars

\* a finished run of a skipped week, a week without selections and a
\* settled week
C29_Witness ==
    /\ bt_pc = "done"
    /\ Len(weekly_groups) = 3
    /\ weekly_groups[1].outcome = "skipped"
    /\ weekly_groups[2].outcome = "none"
    /\ weekly_groups[3].outcome = "tested"
    /\ Len(round_reports) = 1
    /\ Len(bankroll_history) = 2
    /\ current_bankroll # initial_bankroll

(***************************************************************************)
(* LivePipeline: _recompute_selections                                     *)
(***************************************************************************)
\* number of recompute cycles
MaxCycles == 3

\* minutes between two recompute cycles: the periods of the two jobs
TickMinutes == {30, 60}

\* the live DataFrame has no implied_*_prob column: _evaluate_selection gets
\* the default 0.5
LiveQuote(p, o, c) == Quote(p, 50, o, c)

LiveM1 == MkRow("m1", "m1", "profile_a", LiveQuote(80, 200, 180), LiveQuote(65, 200, 180), FALSE, 0, 0)
LiveM2 == MkRow("m2", "m2", "profile_b", LiveQuote(76, 150, 140), LiveQuote(65, 200, 180), TRUE, 0, 0)
LiveM3 == MkRow("m3", "m3", "profile_a", LiveQuote(72, 200, 180), LiveQuote(65, 200, 180), TRUE, 0, 0)
LiveM4 == MkRow("m4", "m4", "profile_b", LiveQuote(80, 200, 180), LiveQuote(65, 200, 180), FALSE, 0, 0)

\* the API gives odds 0 for m5; every predict_proba raises on m6
LiveM5 == MkRow("m5", "m5", "profile_a", LiveQuote(80, 0, 180), LiveQuote(65, 200, 180), TRUE, 0, 0)
LiveM6 == MkRow("m6", "m6", "profile_b", LiveQuote(PredictError, 200, 180), LiveQuote(65, 200, 180), TRUE, 0, 0)
LiveM7 == MkRow("m7", "m7", "profile_a", LiveQuote(80, 200, 180), LiveQuote(65, 200, 180), TRUE, 0, 0)

\* m8 is quoted outside the odds range 1.5 to 3.0 on both variants; the odds
\* of m9 drifted by 10% in the last hour
LiveM8 == MkRow("m8", "m8", "profile_a", LiveQuote(80, 320, 280), LiveQuote(76, 140, 130), TRUE, 0, 0)
LiveM9 == [MkRow("m9", "m9", "profile_b", LiveQuote(76, 150, 140), LiveQuote(65, 200, 180), TRUE, 0, 0)
              EXCEPT !.market_drift_1h = 10]

LiveKeys == {"m1", "m2", "m3", "m4", "m5", "m6", "m7", "m8", "m9"} \X {"over", "under"}

\* what GET /mvp/events/football answers: a status and the parsed matches
Feeds ==
    {[status |-> 500, data |-> <<>>],
     [status |-> 200, data |-> <<>>],
     [status |-> 200, data |-> <<LiveM3, LiveM1, LiveM8>>],
     [status |-> 200, data |-> <<LiveM4, LiveM2>>],
     [status |-> 200, data |-> <<LiveM5, LiveM1, LiveM7>>],
     [status |-> 200, data |-> <<LiveM6, LiveM9>>]}

LiveMatches == UNION {{f.data[i] : i \in 1..Len(f.data)} : f \in Feeds}

\* what the webhook answers one POST: 200, another status, an exception
AlertOutcomes == {"200", "500", "raise"}

NoCutoff == -1

fetch_upcoming_matches(response) ==
    IF response.status = 200 THEN response.data ELSE <<>>

feature_get(features, key, default) ==
    IF key \in DOMAIN features THEN features[key] ELSE default

Abs(x) == IF x < 0 THEN 0 - x ELSE x

\* the gatekeeper without the lineup check and without the odds range
apply_gatekeeper_open(selections) ==
    SelectSeq(selections, LAMBDA s :
        /\ ~(s.confidence < 75)
        /\ ~(s.edge < 4)
        /\ RatGePct(s.clv, 2)
        /\ ~(Abs(feature_get(s.features, "market_drift_1h", 0)) > 5))

\* _apply_gatekeeper
apply_gatekeeper(selections) ==
    SelectSeq(selections, LAMBDA s :
        /\ ~(s.confidence < 75)
        /\ ~(s.edge < 4)
        /\ RatGePct(s.clv, 2)
        /\ ~(s.profile = "profile_b" /\ ~feature_get(s.features, "lineup_confirmed", FALSE))
        /\ ~(Abs(feature_get(s.features, "market_drift_1h", 0)) > 5)
        /\ ~(s.odds < 150 \/ s.odds > 300))

SelKey(s) == <<s.match_id, s.selection_type>>

KeysOf(selections) == {SelKey(selections[i]) : i \in 1..Len(selections)}

\* send_selection_alerts left at the first POST that raises
send_selection_alerts_abort(posted, selections, out) ==
    LET done == {i \in 1..Len(selections) :
                    \A j \in 1..(i - 1) : out[j] # "raise"}
    IN  [k \in DOMAIN posted |->
            [sent |-> posted[k].sent
                      + Cardinality({i \in done :
                                        SelKey(selections[i]) = k /\ out[i] = "200"}),
             failed |-> posted[k].failed
                      + Cardinality({i \in done :
                                        SelKey(selections[i]) = k /\ out[i] # "200"})]]

\* _send_selection_alerts: every selection of the list is posted, whatever
\* was posted in earlier cycles; out[i] is the answer to the i-th POST
send_selection_alerts(posted, selections, out) ==
    [k \in DOMAIN posted |->
        [sent |-> posted[k].sent
                  + Cardinality({i \in 1..Len(selections) :
                                    SelKey(selections[i]) = k /\ out[i] = "200"}),
         failed |-> posted[k].failed
                  + Cardinality({i \in 1..Len(selections) :
                                    SelKey(selections[i]) = k /\ out[i] # "200"})]]

LiveInit ==
    /\ models = AllModelKeys
    /\ e_df = <<>> /\ e_out = <<>> /\ e_pc = "ready"
    /\ e_bankroll = engine_bankroll /\ selections_history = <<>>
    /\ criteria = SelectionCriteria
    /\ BacktestIdle /\ SchedIdle
    /\ WeeksIdle /\ RateIdle
    /\ clock = 0
    /\ feed = [status |-> 200, data |-> <<>>]
    /\ lv_pc = "idle"
    /\ upcoming_matches = <<>>
    /\ emitted = [k \in LiveKeys |-> NoCutoff]
    /\ alerts = [k \in LiveKeys |-> [sent |-> 0, failed |-> 0]]
    /\ cycles = 0

\* a cycle starts d minutes after the previous one and the API answers
CycleStart(d, response) ==
    /\ lv_pc = "idle" /\ cycles < MaxCycles
    /\ clock' = IF cycles = 0 THEN clock ELSE clock + d
    /\ feed' = response
    /\ cycles' = cycles + 1

\* _recompute_selections: the fetch fails or returns nothing, return
RecomputeNoMatches ==
    /\ \E d \in TickMinutes, response \in Feeds :
          /\ CycleStart(d, response)
          /\ fetch_upcoming_matches(response) = <<>>
    /\ upcoming_matches' = <<>>
    /\ UNCHANGED <<lv_pc, emitted, alerts>>
    /\ UNCHANGED <<engine_vars, backtest_vars, sched_vars, weeks_vars, rate_vars>>

\* _recompute_selections: the fetch returns matches
RecomputeFetch ==
    /\ \E d \in TickMinutes, response \in Feeds :
          /\ CycleStart(d, response)
          /\ fetch_upcoming_matches(response) # <<>>
          /\ upcoming_matches' = fetch_upcoming_matches(response)
    /\ lv_pc' = "profile_a"
    /\ UNCHANGED <<emitted, alerts>>
    /\ UNCHANGED <<engine_vars, backtest_vars, sched_vars, weeks_vars, rate_vars>>

NextProfile(p) == IF p = "profile_a" THEN "profile_b" ELSE "idle"

\* _recompute_selections: one iteration of the loop over the two profiles
RecomputeProfile ==
    /\ lv_pc \in Profiles
    /\ LET profile_matches == SelectSeq(upcoming_matches, LAMBDA m : m[lv_pc] = 1)
           selections == select_matches(profile_matches, lv_pc, models, e_bankroll, clock)
           qualified == apply_gatekeeper(selections)
       IN  /\ emitted' = [k \in LiveKeys |->
                            IF emitted[k] = NoCutoff /\ k \in KeysOf(selections)
                            THEN clock + 60 ELSE emitted[k]]
           /\ \E out \in [1..Len(qualified) -> AlertOutcomes] :
                 alerts' = send_selection_alerts(alerts, qualified, out)
    /\ lv_pc' = NextProfile(lv_pc)
    /\ upcoming_matches' = IF lv_pc = "profile_b" THEN <<>> ELSE upcoming_matches
    /\ UNCHANGED <<clock, feed, cycles>>
    /\ UNCHANGED <<engine_vars, backtest_vars, sched_vars, weeks_vars, rate_vars>>

LiveNext == RecomputeNoMatches \/ RecomputeFetch \/ RecomputeProfile

SpecLive == LiveInit /\ [][LiveNext]_vars

(***************************************************************************)
(* Properties of SpecLive                                                  *)
(***************************************************************************)
\* C1: across the recompute cycles every (match id, variant) has at most one
\* alert delivered to the webhook.
C1_AlertAtMostOnce ==
    \A k \in LiveKeys : alerts[k].sent <= 1

\* C2: a candidate whose cutoff_time (that of the first Selection made for
\* it) has passed is not among the matches handed to select_matches.
C2_NoStaleEvaluation ==
    lv_pc \in Profiles =>
        \A i \in 1..Len(upcoming_matches) : \A t \in {"over", "under"} :
            LET k == <<upcoming_matches[i].match_id, t>> IN
            (upcoming_matches[i][lv_pc] = 1 /\ emitted[k] # NoCutoff)
                => clock <= emitted[k]

\* the candidate, evaluated on its own, gets a Selection for the variant
EngineSelects(m, profile, t) ==
    <<m.match_id, t>> \in KeysOf(select_matches(<<m>>, profile, models, e_bankroll, clock))

\* the candidate, evaluated on its own, passes the gatekeeper for the variant
CandidateQualifies(m, profile, t) ==
    <<m.match_id, t>> \in
        KeysOf(apply_gatekeeper(select_matches(<<m>>, profile, models, e_bankroll, clock)))

Dispatched(a, k) == a[k].sent + a[k].failed

\* a pass over the profile lv_pc that goes on to the next profile, evaluates
\* every candidate that selects on its own and dispatches an alert for every
\* candidate that qualifies on its own
IsolatedPass ==
    /\ lv_pc' = NextProfile(lv_pc)
    /\ \A i \in 1..Len(upcoming_matches) : \A t \in {"over", "under"} :
          LET m == upcoming_matches[i]
              k == <<m.match_id, t>>
          IN  m[lv_pc] = 1 =>
                 /\ EngineSelects(m, lv_pc, t) => emitted'[k] # NoCutoff
                 /\ CandidateQualifies(m, lv_pc, t)
                       => Dispatched(alerts', k) = Dispatched(alerts, k) + 1

\* C15: inside a recompute cycle no failure on one candidate (odds the
\* evaluation raises on, a prediction error, a webhook POST that raises or
\* answers non-200) cuts the cycle short: profile_b is processed after
\* profile_a, and in the pass over a profile every other candidate is
\* evaluated and, if it qualifies, has an alert dispatched.
C15_FailureIsolatedInCycle == [][(lv_pc \in Profiles) => IsolatedPass]_vars

\* the end of a first cycle in which the evaluation of m5 raised, the alert
\* of m1 failed and the alert of m7, after it, was delivered
C15_Witness ==
    /\ cycles = 1 /\ lv_pc = "idle"
    /\ \E i \in 1..Len(feed.data) : feed.data[i].opening_over_odds = 0
    /\ emitted[<<"m5", "over">>] = NoCutoff
    /\ alerts[<<"m1", "over">>] = [sent |-> 0, failed |-> 1]
    /\ alerts[<<"m7", "over">>] = [sent |-> 1, failed |-> 0]

\* every alert dispatched by the step is for a match whose lineup is
\* confirmed if it is of profile_b, at odds from 1.5 to 3.0
GatedPass ==
    \A m \in LiveMatches : \A t \in {"over", "under"} :
        LET k == <<m.match_id, t>> IN
        Dispatched(alerts', k) > Dispatched(alerts, k) =>
            /\ m.profile_b = 1 => m.lineup_confirmed
            /\ RowOdds(m, t) >= 150 /\ RowOdds(m, t) <= 300

\* C22: on the live path no alert is emitted for a profile_b Selection whose
\* lineup is not confirmed, nor for any Selection with odds outside
\* [1.5, 3.0].
C22_NoAlertOutsideLineupAndOdds == [][GatedPass]_vars

\* m4 (profile_b, lineup not confirmed) and both variants of m8 (odds 3.20
\* and 1.40) got their Selections and no alert, while the alert of m1 was
\* delivered
C22_Witness ==
    /\ emitted[<<"m4", "over">>] # NoCutoff
    /\ Dispatched(alerts, <<"m4", "over">>) = 0
    /\ emitted[<<"m8", "over">>] # NoCutoff
    /\ emitted[<<"m8", "under">>] # NoCutoff
    /\ Dispatched(alerts, <<"m8", "over">>) = 0
    /\ Dispatched(alerts, <<"m8", "under">>) = 0
    /\ alerts[<<"m1", "over">>].sent = 1
    /\ lv_pc = "idle"

\* C23: on the live path no alert is emitted for a match whose odds drifted
\* by more than 5% in the last hour, and a Selection whose features do not
\* carry the drift is rejected.
C23_NoAlertOnDrift ==
    \A m \in LiveMatches : \A t \in {"over", "under"} :
        Dispatched(alerts, <<m.match_id, t>>) > 0 =>
            /\ Abs(m.market_drift_1h) <= 5
            /\ "market_drift_1h" \in DOMAIN extract_key_features(m)

(***************************************************************************)
(* LivePipeline.run and the jobs of _setup_scheduler                       *)
(***************************************************************************)
\* minutes the main loop is followed
MaxMinutes == 125

\* registration order of _setup_scheduler
Jobs == <<"hourly", "half_hourly", "daily">>
RecomputeJobs == {"hourly", "half_hourly"}

\* every().hour, every(30).minutes, every().day, in minutes
hour_period == 60
half_hour_period == 30
day_period == 1440

job_period(j) ==
    IF j = "hourly" THEN hour_period
    ELSE IF j = "half_hourly" THEN half_hour_period
    ELSE day_period

\* minutes from the start of the process to the next 23:00
MinutesTo2300 == {45, 900}

JobIndex(j) == CHOOSE i \in 1..Len(Jobs) : Jobs[i] = j

\* schedule: job.should_run
should_run(j) == sc_clock >= next_run[j]

\* run_pending: sorted(runnable_jobs), by next_run, ties in registration order
first_runnable ==
    CHOOSE j \in DOMAIN next_run :
        /\ should_run(j)
        /\ \A o \in DOMAIN next_run :
              should_run(o) =>
                  \/ next_run[j] < next_run[o]
                  \/ (next_run[j] = next_run[o] /\ JobIndex(j) <= JobIndex(o))

SchedInit ==
    /\ EngineIdle
    /\ BacktestIdle /\ LiveIdle
    /\ WeeksIdle /\ RateIdle
    /\ sc_pc = "idle"
    /\ sc_clock = 0
    /\ next_run = <<>>
    /\ fired = <<>>
    /\ coroutines = 0
    /\ running = 0

\* run: initialize() loads the models and sets the scheduler up
Initialize ==
    /\ sc_pc = "idle"
    /\ models' = AllModelKeys
    /\ \E t \in MinutesTo2300 :
          next_run' = [j \in {"hourly", "half_hourly", "daily"} |->
                          IF j = "daily" THEN t ELSE job_period(j)]
    /\ sc_pc' = "loop"
    /\ UNCHANGED <<e_df, e_out, e_pc, e_bankroll, selections_history, criteria>>
    /\ UNCHANGED <<sc_clock, fired, coroutines, running>>
    /\ UNCHANGED <<backtest_vars, live_vars, weeks_vars, rate_vars>>

\* run: initialize() returns False (the models cannot be loaded), run returns
InitializeFails ==
    /\ sc_pc = "idle"
    /\ sc_pc' = "stopped"
    /\ UNCHANGED <<engine_vars, sc_clock, next_run, fired, coroutines, running>>
    /\ UNCHANGED <<backtest_vars, live_vars, weeks_vars, rate_vars>>

\* run_pending: job.run() of the next runnable job.  job_func() is an
\* async def: the call builds a coroutine object that nothing awaits, no
\* statement of its body runs.
RunJob ==
    /\ sc_pc = "loop"
    /\ \E j \in DOMAIN next_run : should_run(j)
    /\ fired' = Append(fired, first_runnable)
    /\ coroutines' = coroutines + 1
    /\ next_run' = [next_run EXCEPT ![first_runnable] = sc_clock + job_period(first_runnable)]
    /\ UNCHANGED <<sc_pc, sc_clock, running>>
    /\ UNCHANGED <<engine_vars, backtest_vars, live_vars, weeks_vars, rate_vars>>

\* run_pending returns, await asyncio.sleep(60)
Sleep ==
    /\ sc_pc = "loop"
    /\ sc_clock < MaxMinutes
    /\ ~\E j \in DOMAIN next_run : should_run(j)
    /\ sc_clock' = sc_clock + 1
    /\ fired' = <<>>
    /\ UNCHANGED <<sc_pc, next_run, coroutines, running>>
    /\ UNCHANGED <<engine_vars, backtest_vars, live_vars, weeks_vars, rate_vars>>

\* run: except KeyboardInterrupt, break
StopByUser ==
    /\ sc_pc = "loop"
    /\ sc_pc' = "stopped"
    /\ UNCHANGED <<sc_clock, next_run, fired, coroutines, running>>
    /\ UNCHANGED <<engine_vars, backtest_vars, live_vars, weeks_vars, rate_vars>>

SchedNext == Initialize \/ InitializeFails \/ RunJob \/ Sleep \/ StopByUser

SpecSched == SchedInit /\ [][SchedNext]_vars

\* C3: no two recompute executions are in progress together, and when the
\* recompute jobs are due in one pass of the scheduler only one of them is
\* called, the other is skipped.
C3_OverlappingTickSkipped ==
    /\ running <= 1
    /\ Cardinality({i \in 1..Len(fired) : fired[i] \in RecomputeJobs}) <= 1

\* C19: every tick of a recompute job leaves the main loop running and
\* performs a fresh recompute (a new cycle that fetches again), so that work
\* that failed on one tick is tried again on the next.
C19_TickRecomputes ==
    [][(/\ sc_pc = "loop"
        /\ Len(fired') > Len(fired)
        /\ fired'[Len(fired')] \in RecomputeJobs)
       => (sc_pc' = "loop" /\ cycles' = cycles + 1)]_vars

(***************************************************************************)
(* run_backtest: _group_by_weeks and the order of the weekly windows       *)
(***************************************************************************)
\* Dates are day numbers, day 0 = Monday 2024-01-01.  2024 is a leap year:
\* day 365 is Tuesday 2024-12-31 and day 366 is Wednesday 2025-01-01.

\* df['date'].dt.year
calendar_year(d) == IF d <= 365 THEN 2024 ELSE 2025

\* df['date'].dt.isocalendar().week: ISO 2024 and ISO 2025 both have 52
\* weeks and ISO 2025 week 1 starts on Monday 2024-12-30 (day 364)
iso_week(d) == ((d \div 7) % 52) + 1

\* the dates a record of the backtest period can carry: 2024-01-01,
\* 2024-01-04, 2024-01-09, 2024-12-27, 2024-12-30, 2024-12-31, 2025-01-02
BacktestDates == {0, 3, 8, 361, 364, 365, 367}

\* number of records of the backtest period
MaxRecords == 4

RECURSIVE SortedSeq(_)
SortedSeq(S) ==
    IF S = {} THEN <<>>
    ELSE LET lo == CHOOSE x \in S : \A y \in S : x <= y
         IN  <<lo>> \o SortedSeq(S \ {lo})

\* df.sort_values('date') restricted to the period
BacktestData ==
    {SortedSeq(S) : S \in {T \in SUBSET BacktestDates : Cardinality(T) <= MaxRecords}}

KeyBefore(a, b) == a[1] < b[1] \/ (a[1] = b[1] /\ a[2] < b[2])

RECURSIVE SortedKeys(_)
SortedKeys(K) ==
    IF K = {} THEN <<>>
    ELSE LET lo == CHOOSE x \in K : \A y \in K \ {x} : KeyBefore(x, y)
         IN  <<lo>> \o SortedKeys(K \ {lo})

\* _group_by_weeks: one entry per (year, week), in the order of groupby
group_by_weeks(dates) ==
    LET rows == {dates[i] : i \in 1..Len(dates)}
        keys == SortedKeys({<<calendar_year(d), iso_week(d)>> : d \in rows})
    IN  [i \in 1..Len(keys) |->
            LET data == {d \in rows : <<calendar_year(d), iso_week(d)>> = keys[i]}
            IN  [week_key |-> keys[i],
                 start_date |-> CHOOSE d \in data : \A e \in data : d <= e,
                 end_date |-> CHOOSE d \in data : \A e \in data : d >= e,
                 data |-> SortedSeq(data)]]

WeeksInit ==
    /\ EngineIdle /\ BacktestIdle /\ LiveIdle /\ SchedIdle /\ RateIdle
    /\ gw_dates \in BacktestData
    /\ gw_groups = <<>>
    /\ gw_done = <<>>
    /\ gw_pc = "start"

\* run_backtest: len(backtest_data) == 0, return None
NoBacktestData ==
    /\ gw_pc = "start"
    /\ gw_dates = <<>>
    /\ gw_pc' = "none"
    /\ UNCHANGED <<gw_dates, gw_groups, gw_done>>
    /\ UNCHANGED <<engine_vars, backtest_vars, live_vars, sched_vars, rate_vars>>

\* run_backtest: weekly_groups = self._group_by_weeks(backtest_data)
GroupByWeeks ==
    /\ gw_pc = "start"
    /\ gw_dates # <<>>
    /\ gw_groups' = group_by_weeks(gw_dates)
    /\ gw_pc' = "loop"
    /\ UNCHANGED <<gw_dates, gw_done>>
    /\ UNCHANGED <<engine_vars, backtest_vars, live_vars, sched_vars, rate_vars>>

\* run_backtest: one iteration of for week_num, week_data in
\* weekly_groups.items()
ProcessWeek ==
    /\ gw_pc = "loop"
    /\ Len(gw_done) < Len(gw_groups)
    /\ gw_done' = Append(gw_done, gw_groups[Len(gw_done) + 1])
    /\ UNCHANGED <<gw_dates, gw_groups, gw_pc>>
    /\ UNCHANGED <<engine_vars, backtest_vars, live_vars, sched_vars, rate_vars>>

\* run_backtest: the loop is exhausted
WeeksDone ==
    /\ gw_pc = "loop"
    /\ Len(gw_done) = Len(gw_groups)
    /\ gw_pc' = "done"
    /\ UNCHANGED <<gw_dates, gw_groups, gw_done>>
    /\ UNCHANGED <<engine_vars, backtest_vars, live_vars, sched_vars, rate_vars>>

WeeksNext == NoBacktestData \/ GroupByWeeks \/ ProcessWeek \/ WeeksDone

SpecWeeks == WeeksInit /\ [][WeeksNext]_vars

\* C24: the weekly windows are processed in chronological order: every
\* processed window spans fewer than 7 days and every match of an earlier
\* window is dated no later than every match of a later window, also across
\* a year boundary where the ISO week number and the calendar year disagree.
C24_WindowsChronological ==
    /\ \A i \in 1..Len(gw_done) :
          gw_done[i].end_date - gw_done[i].start_date < 7
    /\ \A i \in 1..Len(gw_done) : \A j \in 1..Len(gw_done) :
          i < j => gw_done[i].end_date <= gw_done[j].start_date

(***************************************************************************)
(* RateLimitMiddleware (api/core/middleware.py)                            *)
(***************************************************************************)
\* request.client.host of the callers
ClientIps == {"a", "b"}

\* RateLimitMiddleware(app, calls_per_minute=n)
RateLimits == {1, 2}

\* seconds between two requests reaching dispatch
Gaps == {0, 30, 31}

\* number of requests dispatched
MaxRequests == 5

\* [t for t in times if t > current_time - 60]
recent_calls(times, current_time) ==
    SelectSeq(times, LAMBDA t : t > current_time - 60)

\* the clients dict after "Clean old entries": an ip stays, with its whole
\* list, if any of its times is recent
clean_old_entries(clients, current_time) ==
    [ip \in {i \in DOMAIN clients : recent_calls(clients[i], current_time) # <<>>}
        |-> clients[ip]]

\* dispatch that rejects only above calls_per_minute recent calls
dispatch_lenient(clients, client_ip, current_time, limit) ==
    LET cleaned == clean_old_entries(clients, current_time)
        known == client_ip \in DOMAIN cleaned
    IN  IF known /\ Len(recent_calls(cleaned[client_ip], current_time)) > limit
        THEN [clients |-> cleaned, status_code |-> 429]
        ELSE [clients |-> [ip \in DOMAIN cleaned \cup {client_ip} |->
                              IF ip = client_ip
                              THEN Append(IF known THEN cleaned[ip] ELSE <<>>,
                                          current_time)
                              ELSE cleaned[ip]],
              status_code |-> 200]

\* RateLimitMiddleware.dispatch: the clients dict it leaves and the status
\* of the response (200 stands for whatever call_next answers)
dispatch(clients, client_ip, current_time, limit) ==
    LET cleaned == clean_old_entries(clients, current_time)
        known == client_ip \in DOMAIN cleaned
    IN  IF known /\ Len(recent_calls(cleaned[client_ip], current_time)) >= limit
        THEN [clients |-> cleaned, status_code |-> 429]
        ELSE [clients |-> [ip \in DOMAIN cleaned \cup {client_ip} |->
                              IF ip = client_ip
                              THEN Append(IF known THEN cleaned[ip] ELSE <<>>,
                                          current_time)
                              ELSE cleaned[ip]],
              status_code |-> 200]

RateInit ==
    /\ EngineIdle /\ BacktestIdle /\ LiveIdle /\ SchedIdle /\ WeeksIdle
    /\ rl_clients = <<>>
    /\ rl_now = 0
    /\ rl_forwarded = [ip \in ClientIps |-> <<>>]
    /\ rl_last = NoRequest
    /\ rl_requests = 0
    /\ rl_limit \in RateLimits

\* one request of client_ip goes through dispatch, gap seconds after the
\* previous one
Dispatch ==
    /\ rl_requests < MaxRequests
    /\ \E client_ip \in ClientIps, gap \in Gaps :
          LET current_time == rl_now + gap
              r == dispatch(rl_clients, client_ip, current_time, rl_limit)
          IN  /\ rl_now' = current_time
              /\ rl_clients' = r.clients
              /\ rl_last' = [ip |-> client_ip, time |-> current_time,
                             status_code |-> r.status_code]
              /\ rl_forwarded' =
                    IF r.status_code = 200
                    THEN [rl_forwarded EXCEPT ![client_ip] = Append(@, current_time)]
                    ELSE rl_forwarded
    /\ rl_requests' = rl_requests + 1
    /\ UNCHANGED rl_limit
    /\ UNCHANGED <<engine_vars, backtest_vars, live_vars, sched_vars, weeks_vars>>

RateNext == Dispatch

SpecRate == RateInit /\ [][RateNext]_vars

\* number of the requests of the list passed on in the 60 seconds up to t:
\* at a time u with t - 60 < u <= t
ForwardedInWindow(times, t) ==
    Cardinality({j \in 1..Len(times) : times[j] > t - 60 /\ times[j] <= t})

IsSuffix(s, t) ==
    Len(s) <= Len(t) /\ s = SubSeq(t, Len(t) - Len(s) + 1, Len(t))

\* C30: per client at most calls_per_minute requests are passed on in any
\* window of 60 seconds (t - 60, t]; only requests passed on are recorded,
\* a request answered 429 is not; and a request is answered 429 exactly when
\* calls_per_minute requests of the same client were passed on in the 60
\* seconds before it, whatever the other clients did.
C30_RateLimitPerClient ==
    /\ \A ip \in DOMAIN rl_forwarded : \A i \in 1..Len(rl_forwarded[ip]) :
          ForwardedInWindow(rl_forwarded[ip], rl_forwarded[ip][i]) <= rl_limit
    /\ \A ip \in DOMAIN rl_clients : IsSuffix(rl_clients[ip], rl_forwarded[ip])
    /\ rl_last.status_code = 429 =>
          ForwardedInWindow(rl_forwarded[rl_last.ip], rl_last.time) >= rl_limit
    /\ rl_last.status_code = 200 =>
          ForwardedInWindow(rl_forwarded[rl_last.ip], rl_last.time) <= rl_limit

\* with calls_per_minute = 2: client a had two requests passed on and one
\* answered 429, client b one passed on, and after the window had moved on a
\* third request of a was passed on
C30_Witness ==
    /\ rl_limit = 2
    /\ rl_requests = 5
    /\ Len(rl_forwarded["a"]) = 3
    /\ Len(rl_forwarded["b"]) = 1
    /\ rl_last = [ip |-> "a", time |-> rl_now, status_code |-> 200]
    /\ Len(rl_clients["a"]) = 1

====
